---- MODULE Spec2Model ----
(***************************************************************************)
(* csv_db: an embedded document store that keeps every collection in one   *)
(* CSV file.  The model follows src/src/lib.rs: Database::find, insert,    *)
(* delete, update and the private Database::write, each split at its       *)
(* await points and at the file-system calls of its blocking units.        *)
(*                                                                         *)
(* A file is a sequence of cells.  A cell is one CSV field together with   *)
(* the mark that ends its record; all cells are taken to have the same     *)
(* size, so a file offset is a number of cells.                            *)
(***************************************************************************)
EXTENDS Integers, Sequences, FiniteSets, TLC

\* ------------------------------------------------------------------ bounds
\* Calls issued in one behaviour by callers that run concurrently.
MaxCalls == 2
\* Calls issued in one behaviour by callers that run one after the other.
MaxSerialCalls == 2
\* Calls issued in one behaviour by callers whose storage may fail.
MaxFaultCalls == 2
\* Calls issued in one behaviour that is compared with the abstract list.
MaxRefineCalls == 4
\* Insert and update are issued only while the file holds fewer records.
MaxDocs == 3

\* ------------------------------------------------------------- the universe
\* Concurrent callers sharing one Database handle.
Procs == {"t1", "t2"}
Collections == {"users", "posts"}

\* The document type of the crate's examples, cut to two fields:
\* struct User { id: usize, name: String }.
Fields == <<"id", "name">>
Ann == [id |-> 1, name |-> "ann"]
Bob == [id |-> 2, name |-> "bob"]
Abe == [id |-> 1, name |-> "abe"]
Docs == {Ann, Bob, Abe}
NoDoc == [id |-> 0, name |-> ""]

\* Caller-supplied predicates: |_| true, |_| false, |u| u.id == 1, |u| u.id == 2.
Preds == {"all", "none", "id1", "id2"}
Matches(predicate, d) ==
    CASE predicate = "all" -> TRUE
      [] predicate = "none" -> FALSE
      [] predicate = "id1" -> d.id = 1
      [] predicate = "id2" -> d.id = 2

\* ------------------------------------------------------------------ config
\* Database::new: the base folder (two path components) and the extension.
BasePath == <<"var", "data">>
Extension == "csv"

PathOfShared(collection) == <<BasePath, "users", Extension>>
\* config.path.join(format!("{}.{}", collection, config.extension))
PathOf(collection) == <<BasePath, collection, Extension>>
Paths == {PathOf(c) : c \in Collections}

\* ----------------------------------------------------------------- results
OkRes(v) == [ok |-> TRUE, val |-> v, err |-> "none"]
ErrRes(kind) == [ok |-> FALSE, val |-> <<>>, err |-> kind]
NoRes == ErrRes("pending")

BoxedOpaque(r) == IF r.ok THEN r ELSE ErrRes("Io")
\* The two ? of `results??`: each error is boxed as what it is, the JoinError of a
\* unit that did not run to its end, or the csv::Error the unit returned.
Boxed(r) ==
    IF r.ok THEN r
    ELSE IF r.err = "Panicked" THEN ErrRes("JoinError")
    ELSE ErrRes(r.err)

\* ------------------------------------------------------------------- files
Missing == [exists |-> FALSE, cells |-> <<>>]
File(cells) == [exists |-> TRUE, cells |-> cells]
Cell(v, eol) == [v |-> v, eol |-> eol]
\* A byte range no writer has written: a hole left by a write past the end.
Nul == Cell("NUL", FALSE)

Max(a, b) == IF a >= b THEN a ELSE b

WriteAtAppend(cells, off, data) == cells \o data
\* write(2) at the descriptor's own offset: overwrite in place, extend the file,
\* fill a gap between the old end and the offset with a hole.  Nothing to write,
\* nothing changes.
WriteAt(cells, off, data) ==
    IF data = <<>> THEN cells
    ELSE [i \in 1..Max(Len(cells), off + Len(data)) |->
            IF i > off /\ i <= off + Len(data) THEN data[i - off]
            ELSE IF i <= Len(cells) THEN cells[i]
            ELSE Nul]

CreateKeep(f) == File(f.cells)
\* File::create inside Writer::from_path: create the file or truncate it.
Create(f) == File(<<>>)

\* ------------------------------------------------------------------- codec
Digits == <<"0", "1", "2", "3", "4", "5", "6", "7", "8", "9">>
\* usize -> text
FormatId(n) == Digits[n + 1]
\* text -> usize; -1 when the text is no number
ParseId(s) ==
    IF \E n \in 0..9 : Digits[n + 1] = s
    THEN CHOOSE n \in 0..9 : Digits[n + 1] = s
    ELSE -1

\* One record: its fields in order, the last one ending the record.
RowCells(vals) == [i \in 1..Len(vals) |-> Cell(vals[i], i = Len(vals))]
FieldValues(d) == <<FormatId(d.id), d.name>>

SerializeNoHeader(idx, d) == RowCells(FieldValues(d))
\* wrt.serialize(document): the first call writes the header record first.
Serialize(idx, d) ==
    (IF idx = 0 THEN RowCells(Fields) ELSE <<>>) \o RowCells(FieldValues(d))

RECURSIVE EncodeFrom(_, _)
EncodeFrom(idx, docs) ==
    IF docs = <<>> THEN <<>>
    ELSE Serialize(idx, Head(docs)) \o EncodeFrom(idx + 1, Tail(docs))
\* What a write-all of docs puts in the file when nothing interferes.
Encode(docs) == EncodeFrom(0, docs)

RECURSIVE SplitRows(_, _, _)
\* The reader's records: cells up to each end mark; the end of the file ends
\* an unfinished record.
SplitRows(cells, cur, acc) ==
    IF cells = <<>> THEN (IF cur = <<>> THEN acc ELSE Append(acc, cur))
    ELSE IF Head(cells).eol
         THEN SplitRows(Tail(cells), <<>>, Append(acc, Append(cur, Head(cells).v)))
         ELSE SplitRows(Tail(cells), Append(cur, Head(cells).v), acc)

Column(header, name) ==
    IF \E i \in 1..Len(header) : header[i] = name
    THEN CHOOSE i \in 1..Len(header) :
            header[i] = name /\ \A j \in 1..(i - 1) : header[j] # name
    ELSE 0

\* Deserialize one record into a User by the header's field names.
DeserializeRow(header, row) ==
    IF Len(row) # Len(header) THEN ErrRes("UnequalLengths")
    ELSE IF Column(header, "id") = 0 \/ Column(header, "name") = 0
         THEN ErrRes("Deserialize")
    ELSE IF ParseId(row[Column(header, "id")]) < 0 THEN ErrRes("Deserialize")
    ELSE OkRes([id |-> ParseId(row[Column(header, "id")]),
                name |-> row[Column(header, "name")]])

RECURSIVE CollectRowsPartial(_, _, _)
CollectRowsPartial(header, rows, acc) ==
    IF rows = <<>> THEN OkRes(acc)
    ELSE LET r == DeserializeRow(header, Head(rows))
         IN IF r.ok THEN CollectRowsPartial(header, Tail(rows), Append(acc, r.val))
            ELSE OkRes(acc)

RECURSIVE CollectRows(_, _, _)
\* rdr.deserialize().collect(): the first failure is the result.
CollectRows(header, rows, acc) ==
    IF rows = <<>> THEN OkRes(acc)
    ELSE LET r == DeserializeRow(header, Head(rows))
         IN IF r.ok THEN CollectRows(header, Tail(rows), Append(acc, r.val))
            ELSE r

DeserializeAllNoHeader(cells) ==
    LET rows == SplitRows(cells, <<>>, <<>>)
    IN CollectRows(Fields, rows, <<>>)
\* The reader takes the first record as the header and decodes the rest.
DeserializeAll(cells) ==
    LET rows == SplitRows(cells, <<>>, <<>>)
    IN IF rows = <<>> THEN OkRes(<<>>)
       ELSE CollectRows(Head(rows), Tail(rows), <<>>)

\* ------------------------------------------------ the in-memory transforms
FilterDocsNot(docs, predicate) == SelectSeq(docs, LAMBDA d : ~Matches(predicate, d))
\* results.into_iter().filter(predicate).collect()
FilterDocs(docs, predicate) == SelectSeq(docs, LAMBDA d : Matches(predicate, d))

InsertDocsFront(docs, document) == <<document>> \o docs
\* documents.push(document)
InsertDocs(docs, document) == Append(docs, document)

RetainDocsFirst(docs, predicate) ==
    IF \E i \in 1..Len(docs) : Matches(predicate, docs[i])
    THEN LET k == CHOOSE i \in 1..Len(docs) :
                     Matches(predicate, docs[i])
                     /\ \A j \in 1..(i - 1) : ~Matches(predicate, docs[j])
         IN SubSeq(docs, 1, k - 1) \o SubSeq(docs, k + 1, Len(docs))
    ELSE docs
\* documents.retain(|d| !predicate(&d))
RetainDocs(docs, predicate) == SelectSeq(docs, LAMBDA d : ~Matches(predicate, d))

UpdateDocsInPlace(docs, document, predicate) ==
    IF \E i \in 1..Len(docs) : Matches(predicate, docs[i])
    THEN [i \in 1..Len(docs) |-> IF Matches(predicate, docs[i]) THEN document ELSE docs[i]]
    ELSE Append(docs, document)
\* documents.retain(|d| !predicate(&d)); documents.push(document)
UpdateDocs(docs, document, predicate) ==
    Append(RetainDocs(docs, predicate), document)

\* The sequence a mutating operation passes to write-all.
Transform(o, docs) ==
    CASE o.kind = "insert" -> InsertDocs(docs, o.document)
      [] o.kind = "delete" -> RetainDocs(docs, o.predicate)
      [] o.kind = "update" -> UpdateDocs(docs, o.document, o.predicate)

\* ------------------------------------------------------------------- state
VARIABLES
    dirs,       \* how many leading components of BasePath exist as folders
    files,      \* path -> the file at that path
    pc,         \* caller -> where its operation stands
    op,         \* caller -> the operation it issued last
    documents,  \* caller -> the Vec a mutating operation hands to write
    results,    \* caller -> what its blocking unit returned
    wrt,        \* caller -> its csv::Writer: buffer, file offset, records done
    ret,        \* caller -> what its last completed operation returned
    budget,     \* operations the callers may still issue
    serial,     \* the callers issue an operation only when none is running
    \* history, read by the properties only
    pre,        \* caller -> what the collection held when the operation was issued
    overlap,    \* caller -> another operation on the same collection overlapped
    cross,      \* caller -> an operation on another collection overlapped
    mut,        \* caller -> the collection's file changed since the operation was issued
    again,      \* caller -> this find repeats the caller's previous find, nothing changed between
    wclean,     \* caller -> no other writer touched the file since this write-all opened it
    wold,       \* caller -> what the file held when this write-all opened it
    committed,  \* path -> the sequence of the last write-all that ran alone to its end
    dirs0,      \* caller -> how many folders of BasePath existed when the operation was issued
    units,      \* caller -> blocking units its operation has dispatched
    openfail,   \* caller -> its read unit could not open the file
    abstract    \* path -> the abstract list of the collection, where one is kept

prog == <<dirs, files, pc, op, documents, results, wrt, ret, budget, serial>>
hist == <<pre, overlap, cross, mut, again, wclean, wold, committed, dirs0, units, openfail, abstract>>
vars == <<prog, hist>>

NoOp == [kind |-> "none", collection |-> "users", document |-> NoDoc, predicate |-> "none"]
NoWriter == [buf |-> <<>>, off |-> 0, idx |-> 0]
Unknown == [known |-> FALSE, docs |-> <<>>]

Commands ==
    {[kind |-> "find", collection |-> c, document |-> NoDoc, predicate |-> pr] :
        c \in Collections, pr \in Preds}
    \cup {[kind |-> "insert", collection |-> c, document |-> d, predicate |-> "all"] :
        c \in Collections, d \in Docs}
    \cup {[kind |-> "delete", collection |-> c, document |-> NoDoc, predicate |-> pr] :
        c \in Collections, pr \in Preds}
    \cup {[kind |-> "update", collection |-> c, document |-> d, predicate |-> pr] :
        c \in Collections, d \in Docs, pr \in Preds}

\* What concurrent callers issue: a smaller choice of documents and predicates.
SmallCommands ==
    {o \in Commands : o.document \in {NoDoc, Ann, Bob} /\ o.predicate \in {"all", "id2"}}
Menu == IF serial THEN Commands ELSE SmallCommands

\* The collections found on disk when the Database is constructed.
\* Torn is the file an interrupted write leaves: the header row, one whole
\* record and the first field of the next.
Torn == File(SubSeq(Encode(<<Ann, Bob>>), 1, Len(Encode(<<Ann, Bob>>)) - 1))
StartUsers == {Missing, File(<<>>), File(Encode(<<Ann>>)), File(Encode(<<Ann, Bob>>)),
               File(Encode(<<Ann, Bob, Abe>>)), Torn}
StartPosts == {Missing, File(Encode(<<Bob>>))}

\* An idle caller keeps the arguments of its last call only when that was a find
\* (the properties compare a find with the find that follows it).
Done(o) == IF o.kind = "find" THEN o
           ELSE [kind |-> o.kind, collection |-> o.collection,
                 document |-> NoDoc, predicate |-> "none"]

Mutating(o) == o.kind \in {"insert", "delete", "update"}
Active(q) == pc[q] # "idle"
FileOf(q) == files[PathOf(op[q].collection)]

\* Reader::from_path fails when the file (or a folder on its path) is missing.
CanOpen(f) == f.exists
OnOpenErrorFail == ErrRes("Io")
\* Err(_) => return Ok(Vec::new())
OnOpenError == OkRes(<<>>)

\* The whole read-all of one file, when nothing runs beside it.
ReadAll(f) == IF CanOpen(f) THEN DeserializeAll(f.cells) ELSE OnOpenError
\* What find returns on that file, when nothing runs beside it.
FindAlone(f, predicate) ==
    IF ReadAll(f).ok THEN OkRes(FilterDocs(ReadAll(f).val, predicate)) ELSE ReadAll(f)

\* Records in a well-formed file.
Stored(f) == IF Len(f.cells) = 0 THEN 0 ELSE (Len(f.cells) \div Len(Fields)) - 1

Start(users, posts) ==
    /\ files \in {f \in [Paths -> users \cup posts] :
                    /\ f[PathOf("users")] \in users
                    /\ f[PathOf("posts")] \in posts}
    /\ dirs \in {n \in 0..Len(BasePath) :
                    (\E path \in Paths : files[path].exists) => n = Len(BasePath)}

Fresh ==
    /\ pc = [p \in Procs |-> "idle"]
    /\ op = [p \in Procs |-> NoOp]
    /\ documents = [p \in Procs |-> <<>>]
    /\ results = [p \in Procs |-> NoRes]
    /\ wrt = [p \in Procs |-> NoWriter]
    /\ ret = [p \in Procs |-> NoRes]
    /\ pre = [p \in Procs |-> NoRes]
    /\ overlap = [p \in Procs |-> FALSE]
    /\ cross = [p \in Procs |-> FALSE]
    /\ mut = [p \in Procs |-> FALSE]
    /\ again = [p \in Procs |-> FALSE]
    /\ wclean = [p \in Procs |-> FALSE]
    /\ wold = [p \in Procs |-> NoRes]
    /\ committed = [path \in Paths |-> Unknown]
    /\ dirs0 = [p \in Procs |-> -1]
    /\ units = [p \in Procs |-> 0]
    /\ openfail = [p \in Procs |-> FALSE]

Init ==
    /\ Start({Missing, File(Encode(<<Ann>>))}, {Missing})
    /\ serial = FALSE
    /\ budget = MaxCalls
    /\ Fresh
    /\ abstract = [path \in Paths |-> Unknown]
InitSerial ==
    /\ Start(StartUsers, StartPosts)
    /\ serial = TRUE
    /\ budget = MaxSerialCalls
    /\ Fresh
    /\ abstract = [path \in Paths |-> Unknown]
\* Collections never written, each beside its abstract list, which starts empty;
\* the other collection may hold a file that does not decode.
InitRefine ==
    /\ Start({Missing}, {Missing, Torn})
    /\ serial = TRUE
    /\ budget = MaxRefineCalls
    /\ Fresh
    /\ abstract = [path \in Paths |->
                        IF files[path].exists THEN Unknown
                        ELSE [known |-> TRUE, docs |-> <<>>]]
InitFault ==
    /\ Start({Missing, File(Encode(<<Ann>>)), File(Encode(<<Ann, Bob>>))}, {Missing})
    /\ serial = TRUE
    /\ budget = MaxFaultCalls
    /\ Fresh
    /\ abstract = [path \in Paths |-> Unknown]

\* ----------------------------------------------------------------- history
\* The documents of S the predicate rejects, in the order of S, by
\* recursion on S.
RECURSIVE Without(_, _)
Without(S, predicate) ==
    IF S = <<>> THEN <<>>
    ELSE IF Matches(predicate, Head(S)) THEN Without(Tail(S), predicate)
    ELSE <<Head(S)>> \o Without(Tail(S), predicate)

\* What the operation makes of the stored sequence S.
Expected(o, S) ==
    CASE o.kind = "insert" -> S \o <<o.document>>
      [] o.kind = "delete" -> Without(S, o.predicate)
      [] o.kind = "update" -> Without(S, o.predicate) \o <<o.document>>

\* The bookkeeping of one step of caller p, from the step's own effect.
History(p) ==
    LET called == pc[p] = "idle" /\ pc'[p] # "idle"
        returned == pc[p] # "idle" /\ pc'[p] = "idle"
        opened == pc[p] = "write_open" /\ pc'[p] = "write_loop"
        dropped == pc[p] = "write_loop" /\ pc'[p] = "write_ret"
        mine == PathOf(op'[p].collection)
        changed(path) == files'[path] # files[path]
    IN /\ pre' = [q \in Procs |->
                    IF q = p /\ called THEN ReadAll(files[mine])
                    ELSE IF q = p /\ returned THEN NoRes
                    ELSE pre[q]]
       /\ overlap' = [q \in Procs |->
                    IF q = p /\ called
                    THEN \E r \in Procs \ {p} :
                            Active(r) /\ op[r].collection = op'[p].collection
                    ELSE IF q = p /\ returned THEN FALSE
                    ELSE overlap[q]
                         \/ (called /\ Active(q) /\ op[q].collection = op'[p].collection)]
       /\ cross' = [q \in Procs |->
                    IF q = p /\ called
                    THEN \E r \in Procs \ {p} :
                            Active(r) /\ op[r].collection # op'[p].collection
                    ELSE IF q = p /\ returned THEN FALSE
                    ELSE cross[q]
                         \/ (called /\ Active(q) /\ op[q].collection # op'[p].collection)]
       /\ mut' = [q \in Procs |->
                    IF q = p /\ called THEN FALSE
                    ELSE mut[q] \/ changed(PathOf(op[q].collection))]
       /\ again' = [q \in Procs |->
                    IF q = p /\ called
                    THEN /\ op'[p].kind = "find"
                         /\ op[p] = op'[p]
                         /\ ret[p].ok
                         /\ ~mut[p]
                    ELSE IF q = p /\ returned THEN FALSE
                    ELSE again[q]]
       /\ wclean' = [q \in Procs |->
                    IF q = p THEN (~returned /\ (opened \/ wclean[p]))
                    ELSE wclean[q]
                         /\ ~(pc[q] = "write_loop"
                              /\ PathOf(op[q].collection) = mine
                              /\ (opened \/ changed(mine)))]
       /\ wold' = [q \in Procs |->
                    IF q = p /\ opened THEN ReadAll(files[mine])
                    ELSE IF q = p /\ (dropped \/ returned) THEN NoRes
                    ELSE wold[q]]
       /\ committed' = [path \in Paths |->
                    IF /\ path = mine /\ dropped /\ wclean[p] /\ results'[p].ok
                       /\ files'[mine] = File(WriteAt(files[mine].cells, wrt[p].off, wrt[p].buf))
                    THEN [known |-> TRUE, docs |-> documents[p]]
                    ELSE IF path = mine /\ (opened \/ dropped \/ changed(path))
                    THEN Unknown
                    ELSE committed[path]]
       /\ dirs0' = [q \in Procs |->
                    IF q = p /\ called THEN dirs
                    ELSE IF q = p /\ returned THEN -1
                    ELSE dirs0[q]]
       /\ units' = [q \in Procs |->
                    IF q = p /\ returned THEN 0
                    ELSE IF q = p
                    THEN (IF called THEN 0 ELSE units[p])
                         + (IF pc'[p] # pc[p] /\ pc'[p] \in {"read_open", "write_mkdir"}
                            THEN 1 ELSE 0)
                    ELSE units[q]]
       /\ openfail' = [q \in Procs |->
                    IF q = p /\ (called \/ returned) THEN FALSE
                    ELSE IF q = p /\ pc[p] = "read_open" /\ pc'[p] = "resume"
                    THEN results'[p].err # "Panicked"
                    ELSE openfail[q]]
       /\ abstract' = [path \in Paths |->
                    IF /\ abstract[path].known /\ path = mine /\ returned
                       /\ pc[p] = "write_ret" /\ ret'[p].ok
                    THEN [known |-> TRUE, docs |-> Expected(op[p], abstract[path].docs)]
                    ELSE abstract[path]]

\* ----------------------------------------------------------------- actions
\* A caller issues find, insert, delete or update: the async fn runs up to the
\* dispatch of its read unit (the find at the head of every operation).
Call(p) ==
    /\ pc[p] = "idle"
    /\ budget > 0
    /\ serial => p = "t1"
    /\ \E o \in Menu :
        /\ o.kind \in {"insert", "update"} => Stored(files[PathOf(o.collection)]) < MaxDocs
        /\ op' = [op EXCEPT ![p] = o]
    /\ pc' = [pc EXCEPT ![p] = "read_open"]
    /\ budget' = budget - 1
    /\ UNCHANGED <<dirs, files, documents, results, wrt, ret, serial>>
    /\ History(p)

ReadOpenCreating(p) ==
    /\ pc[p] = "read_open"
    /\ pc' = [pc EXCEPT ![p] = "read_rows"]
    /\ files' = [files EXCEPT ![PathOf(op[p].collection)] = File(@.cells)]
    /\ UNCHANGED <<dirs, op, documents, results, wrt, ret, budget, serial>>
    /\ History(p)

\* Read unit, first half: Reader::from_path.
ReadOpen(p) ==
    /\ pc[p] = "read_open"
    /\ IF CanOpen(FileOf(p))
       THEN /\ pc' = [pc EXCEPT ![p] = "read_rows"]
            /\ UNCHANGED results
       ELSE /\ pc' = [pc EXCEPT ![p] = "resume"]
            /\ results' = [results EXCEPT ![p] = OnOpenError]
    /\ UNCHANGED <<dirs, files, op, documents, wrt, ret, budget, serial>>
    /\ History(p)

\* Read unit, second half: rdr.deserialize().collect().
ReadRecords(p) ==
    /\ pc[p] = "read_rows"
    /\ results' = [results EXCEPT ![p] = DeserializeAll(FileOf(p).cells)]
    /\ pc' = [pc EXCEPT ![p] = "resume"]
    /\ UNCHANGED <<dirs, files, op, documents, wrt, ret, budget, serial>>
    /\ History(p)

ReadFailedWrites(p) ==
    /\ pc[p] = "resume"
    /\ ~results[p].ok
    /\ IF Mutating(op[p])
       THEN /\ documents' = [documents EXCEPT ![p] = Transform(op[p], <<>>)]
            /\ pc' = [pc EXCEPT ![p] = "write_mkdir"]
            /\ UNCHANGED <<ret, op>>
       ELSE /\ ret' = [ret EXCEPT ![p] = Boxed(results[p])]
            /\ pc' = [pc EXCEPT ![p] = "idle"]
            /\ documents' = [documents EXCEPT ![p] = <<>>]
            /\ op' = [op EXCEPT ![p] = Done(@)]
    /\ results' = [results EXCEPT ![p] = NoRes]
    /\ UNCHANGED <<dirs, files, wrt, budget, serial>>
    /\ History(p)

\* The caller resumes with a failed read: results?? returns the error, from find
\* and, through find(..).await?, from insert, delete and update.
ReadFailed(p) ==
    /\ pc[p] = "resume"
    /\ ~results[p].ok
    /\ ret' = [ret EXCEPT ![p] = Boxed(results[p])]
    /\ pc' = [pc EXCEPT ![p] = "idle"]
    /\ results' = [results EXCEPT ![p] = NoRes]
    /\ documents' = [documents EXCEPT ![p] = <<>>]
    /\ op' = [op EXCEPT ![p] = Done(@)]
    /\ UNCHANGED <<dirs, files, wrt, budget, serial>>
    /\ History(p)

\* The caller resumes in find: filter by the predicate and return.
FindDone(p) ==
    /\ pc[p] = "resume"
    /\ results[p].ok
    /\ op[p].kind = "find"
    /\ ret' = [ret EXCEPT ![p] = OkRes(FilterDocs(results[p].val, op[p].predicate))]
    /\ pc' = [pc EXCEPT ![p] = "idle"]
    /\ results' = [results EXCEPT ![p] = NoRes]
    /\ documents' = [documents EXCEPT ![p] = <<>>]
    /\ UNCHANGED <<dirs, files, op, wrt, budget, serial>>
    /\ History(p)

WriteDispatchRaw(p) ==
    /\ pc[p] = "resume"
    /\ results[p].ok
    /\ Mutating(op[p])
    /\ documents' = [documents EXCEPT ![p] =
                        IF op[p].kind = "insert" THEN InsertDocs(results[p].val, op[p].document)
                        ELSE results[p].val]
    /\ pc' = [pc EXCEPT ![p] = "write_mkdir"]
    /\ results' = [results EXCEPT ![p] = NoRes]
    /\ UNCHANGED <<dirs, files, op, wrt, ret, budget, serial>>
    /\ History(p)

\* The caller resumes in insert, delete or update: find's filter with |_| true,
\* the change to the Vec, and the dispatch of the write unit.
WriteDispatch(p) ==
    /\ pc[p] = "resume"
    /\ results[p].ok
    /\ Mutating(op[p])
    /\ documents' = [documents EXCEPT ![p] = Transform(op[p], FilterDocs(results[p].val, "all"))]
    /\ pc' = [pc EXCEPT ![p] = "write_mkdir"]
    /\ results' = [results EXCEPT ![p] = NoRes]
    /\ UNCHANGED <<dirs, files, op, wrt, ret, budget, serial>>
    /\ History(p)

WriteMkdirOneLevel(p) ==
    /\ pc[p] = "write_mkdir"
    /\ dirs' = (IF dirs >= Len(BasePath) - 1 THEN Len(BasePath) ELSE dirs)
    /\ pc' = [pc EXCEPT ![p] = "write_open"]
    /\ UNCHANGED <<files, op, documents, results, wrt, ret, budget, serial>>
    /\ History(p)

\* Write unit: std::fs::create_dir_all(parent_path).
WriteMkdir(p) ==
    /\ pc[p] = "write_mkdir"
    /\ dirs' = Len(BasePath)
    /\ pc' = [pc EXCEPT ![p] = "write_open"]
    /\ UNCHANGED <<files, op, documents, results, wrt, ret, budget, serial>>
    /\ History(p)

WriteOpenSkipEmpty(p) ==
    /\ pc[p] = "write_open"
    /\ IF dirs = Len(BasePath)
       THEN /\ files' = [files EXCEPT ![PathOf(op[p].collection)] =
                            IF documents[p] = <<>> /\ @.exists THEN @ ELSE Create(@)]
            /\ wrt' = [wrt EXCEPT ![p] = NoWriter]
            /\ pc' = [pc EXCEPT ![p] = "write_loop"]
            /\ UNCHANGED results
       ELSE /\ results' = [results EXCEPT ![p] = ErrRes("Io")]
            /\ pc' = [pc EXCEPT ![p] = "write_ret"]
            /\ UNCHANGED <<files, wrt>>
    /\ UNCHANGED <<dirs, op, documents, ret, budget, serial>>
    /\ History(p)

\* Write unit: Writer::from_path(&path) creates or truncates the file.  With a
\* folder of the path missing it fails with an I/O error, File::create(&path)
\* fails as well, and the first error is returned.
WriteOpen(p) ==
    /\ pc[p] = "write_open"
    /\ IF dirs = Len(BasePath)
       THEN /\ files' = [files EXCEPT ![PathOf(op[p].collection)] = Create(@)]
            /\ wrt' = [wrt EXCEPT ![p] = NoWriter]
            /\ pc' = [pc EXCEPT ![p] = "write_loop"]
            /\ UNCHANGED results
       ELSE /\ results' = [results EXCEPT ![p] = ErrRes("Io")]
            /\ pc' = [pc EXCEPT ![p] = "write_ret"]
            /\ UNCHANGED <<files, wrt>>
    /\ UNCHANGED <<dirs, op, documents, ret, budget, serial>>
    /\ History(p)

\* Where the writer's buffer may have been emptied while one record was put into
\* it: not at all, or up to any cell of that record (the buffer was full there).
FlushPoints(buf, new) == {0} \cup {Len(buf) + j : j \in 0..Len(new)}

\* Write unit: wrt.serialize(document) for the next document of the Vec.
WriteSerialize(p) ==
    /\ pc[p] = "write_loop"
    /\ wrt[p].idx < Len(documents[p])
    /\ LET new == Serialize(wrt[p].idx, documents[p][wrt[p].idx + 1])
           all == wrt[p].buf \o new
       IN \E k \in FlushPoints(wrt[p].buf, new) :
            /\ files' = [files EXCEPT ![PathOf(op[p].collection)] =
                            File(WriteAt(@.cells, wrt[p].off, SubSeq(all, 1, k)))]
            /\ wrt' = [wrt EXCEPT ![p] = [buf |-> SubSeq(all, k + 1, Len(all)),
                                          off |-> wrt[p].off + k,
                                          idx |-> wrt[p].idx + 1]]
    /\ UNCHANGED <<dirs, pc, op, documents, results, ret, budget, serial>>
    /\ History(p)

\* Write unit: the closure returns Ok(()) and drops the writer, which flushes
\* what is left in its buffer.
WriteDrop(p) ==
    /\ pc[p] = "write_loop"
    /\ wrt[p].idx = Len(documents[p])
    /\ files' = [files EXCEPT ![PathOf(op[p].collection)] =
                    File(WriteAt(@.cells, wrt[p].off, wrt[p].buf))]
    /\ wrt' = [wrt EXCEPT ![p] = NoWriter]
    /\ results' = [results EXCEPT ![p] = OkRes(<<>>)]
    /\ pc' = [pc EXCEPT ![p] = "write_ret"]
    /\ UNCHANGED <<dirs, op, documents, ret, budget, serial>>
    /\ History(p)

\* The caller resumes after the write unit: Ok(self.write(..).await??).
WriteReturn(p) ==
    /\ pc[p] = "write_ret"
    /\ ret' = [ret EXCEPT ![p] = Boxed(results[p])]
    /\ pc' = [pc EXCEPT ![p] = "idle"]
    /\ results' = [results EXCEPT ![p] = NoRes]
    /\ documents' = [documents EXCEPT ![p] = <<>>]
    /\ op' = [op EXCEPT ![p] = Done(@)]
    /\ UNCHANGED <<dirs, files, wrt, budget, serial>>
    /\ History(p)

Next ==
    \E p \in Procs :
        \/ Call(p)
        \/ ReadOpen(p)
        \/ ReadRecords(p)
        \/ ReadFailed(p)
        \/ FindDone(p)
        \/ WriteDispatch(p)
        \/ WriteMkdir(p)
        \/ WriteOpen(p)
        \/ WriteSerialize(p)
        \/ WriteDrop(p)
        \/ WriteReturn(p)

\* ------------------------------------------------- file-system failures
\* create_dir_all fails, after creating none or some of the missing folders; the
\* ? returns the error from the write unit.
WriteMkdirFail(p) ==
    /\ pc[p] = "write_mkdir"
    /\ dirs < Len(BasePath)
    /\ dirs' \in dirs..(Len(BasePath) - 1)
    /\ results' = [results EXCEPT ![p] = ErrRes("Io")]
    /\ pc' = [pc EXCEPT ![p] = "write_ret"]
    /\ UNCHANGED <<files, op, documents, wrt, ret, budget, serial>>
    /\ History(p)

\* Writer::from_path fails with an I/O error: the code goes on to File::create.
WriteOpenFail(p) ==
    /\ pc[p] = "write_open"
    /\ pc' = [pc EXCEPT ![p] = "write_retry"]
    /\ UNCHANGED <<dirs, files, op, documents, results, wrt, ret, budget, serial>>
    /\ History(p)

\* File::create succeeds and so does the second Writer::from_path.
WriteRetry(p) ==
    /\ pc[p] = "write_retry"
    /\ dirs = Len(BasePath)
    /\ files' = [files EXCEPT ![PathOf(op[p].collection)] = Create(@)]
    /\ wrt' = [wrt EXCEPT ![p] = NoWriter]
    /\ pc' = [pc EXCEPT ![p] = "write_loop"]
    /\ UNCHANGED <<dirs, op, documents, results, ret, budget, serial>>
    /\ History(p)

\* File::create fails (the first error is returned), or it succeeds and the second
\* Writer::from_path fails (its error is returned by the ?).
WriteRetryFail(p) ==
    /\ pc[p] = "write_retry"
    /\ \/ UNCHANGED files
       \/ /\ dirs = Len(BasePath)
          /\ files' = [files EXCEPT ![PathOf(op[p].collection)] = Create(@)]
    /\ results' = [results EXCEPT ![p] = ErrRes("Io")]
    /\ pc' = [pc EXCEPT ![p] = "write_ret"]
    /\ UNCHANGED <<dirs, op, documents, wrt, ret, budget, serial>>
    /\ History(p)

\* What a flush of data at offset off leaves in the file when the write fails:
\* less than all of data; and the writer, dropped with data still in its buffer,
\* flushes once more, which fails again or writes data after what was written.
FailedFlush(cells, off, data) ==
    {WriteAt(cells, off, SubSeq(data, 1, j)) : j \in 0..(Len(data) - 1)}
    \cup {WriteAt(WriteAt(cells, off, SubSeq(data, 1, j)), off + j, data) :
            j \in 0..(Len(data) - 1)}

\* wrt.serialize(document) finds the buffer full and the flush fails: the ? returns
\* the error from the write unit.
WriteSerializeFail(p) ==
    /\ pc[p] = "write_loop"
    /\ wrt[p].idx < Len(documents[p])
    /\ LET new == Serialize(wrt[p].idx, documents[p][wrt[p].idx + 1])
           all == wrt[p].buf \o new
       IN \E k \in FlushPoints(wrt[p].buf, new) \ {0} :
            \E cells \in FailedFlush(FileOf(p).cells, wrt[p].off, SubSeq(all, 1, k)) :
                files' = [files EXCEPT ![PathOf(op[p].collection)] = File(cells)]
    /\ wrt' = [wrt EXCEPT ![p] = NoWriter]
    /\ results' = [results EXCEPT ![p] = ErrRes("Io")]
    /\ pc' = [pc EXCEPT ![p] = "write_ret"]
    /\ UNCHANGED <<dirs, op, documents, ret, budget, serial>>
    /\ History(p)

\* The closure returns Ok(()) and drops the writer, whose flush fails: Drop has no
\* way to report it, and the write unit's result stays Ok(()).
WriteDropFail(p) ==
    /\ pc[p] = "write_loop"
    /\ wrt[p].idx = Len(documents[p])
    /\ wrt[p].buf # <<>>
    /\ \E j \in 0..(Len(wrt[p].buf) - 1) :
            files' = [files EXCEPT ![PathOf(op[p].collection)] =
                        File(WriteAt(@.cells, wrt[p].off, SubSeq(wrt[p].buf, 1, j)))]
    /\ wrt' = [wrt EXCEPT ![p] = NoWriter]
    /\ results' = [results EXCEPT ![p] = OkRes(<<>>)]
    /\ pc' = [pc EXCEPT ![p] = "write_ret"]
    /\ UNCHANGED <<dirs, op, documents, ret, budget, serial>>
    /\ History(p)

\* ------------------------------------------------------- other failures
\* The read unit panics or is cancelled: the JoinHandle yields Err(JoinError).
ReadPanic(p) ==
    /\ pc[p] \in {"read_open", "read_rows"}
    /\ results' = [results EXCEPT ![p] = ErrRes("Panicked")]
    /\ pc' = [pc EXCEPT ![p] = "resume"]
    /\ UNCHANGED <<dirs, files, op, documents, wrt, ret, budget, serial>>
    /\ History(p)

\* The write unit panics or is cancelled.  A writer that is open is dropped by
\* the unwinding and flushes its buffer, all of it or, the flush failing, a part.
WritePanic(p) ==
    /\ pc[p] \in {"write_mkdir", "write_open", "write_loop"}
    /\ IF pc[p] = "write_loop"
       THEN \E j \in 0..Len(wrt[p].buf) :
                files' = [files EXCEPT ![PathOf(op[p].collection)] =
                            File(WriteAt(@.cells, wrt[p].off, SubSeq(wrt[p].buf, 1, j)))]
       ELSE UNCHANGED files
    /\ wrt' = [wrt EXCEPT ![p] = NoWriter]
    /\ results' = [results EXCEPT ![p] = ErrRes("Panicked")]
    /\ pc' = [pc EXCEPT ![p] = "write_ret"]
    /\ UNCHANGED <<dirs, op, documents, ret, budget, serial>>
    /\ History(p)

ReadOpenFailSurfaced(p) ==
    /\ pc[p] = "read_open"
    /\ CanOpen(FileOf(p))
    /\ results' = [results EXCEPT ![p] = ErrRes("Io")]
    /\ pc' = [pc EXCEPT ![p] = "resume"]
    /\ UNCHANGED <<dirs, files, op, documents, wrt, ret, budget, serial>>
    /\ History(p)

\* Reader::from_path fails on a file that exists (no permission, too many open
\* files): the Err(_) arm takes every error.
ReadOpenFail(p) ==
    /\ pc[p] = "read_open"
    /\ CanOpen(FileOf(p))
    /\ results' = [results EXCEPT ![p] = OnOpenError]
    /\ pc' = [pc EXCEPT ![p] = "resume"]
    /\ UNCHANGED <<dirs, files, op, documents, wrt, ret, budget, serial>>
    /\ History(p)

NextFault ==
    \/ Next
    \/ \E p \in Procs :
        \/ ReadPanic(p)
        \/ WritePanic(p)
        \/ ReadOpenFail(p)
        \/ WriteMkdirFail(p)
        \/ WriteOpenFail(p)
        \/ WriteRetry(p)
        \/ WriteRetryFail(p)
        \/ WriteSerializeFail(p)
        \/ WriteDropFail(p)

\* Storage that never fails, callers that run concurrently.
Spec == Init /\ [][Next]_vars
\* Storage that never fails, callers that run one after the other.
SpecSerial == InitSerial /\ [][Next]_vars
\* The same, from collections never written, with the abstract list kept.
SpecRefine == InitRefine /\ [][Next]_vars
\* Storage whose writes may fail, callers that run one after the other.
SpecFault == InitFault /\ [][NextFault]_vars

\* ============================================================== properties
\* The documents of S the predicate accepts, in the order of S, by recursion on S.
RECURSIVE Only(_, _)
Only(S, predicate) ==
    IF S = <<>> THEN <<>>
    ELSE IF Matches(predicate, Head(S)) THEN <<Head(S)>> \o Only(Tail(S), predicate)
    ELSE Only(Tail(S), predicate)

Elems(S) == {S[i] : i \in 1..Len(S)}

\* Caller p's mutating operation of this kind returns success, and no operation
\* on its collection overlapped it.
ReturnsAlone(p, kind) ==
    /\ pc[p] = "write_ret"
    /\ pc'[p] = "idle"
    /\ op[p].kind = kind
    /\ ret'[p].ok
    /\ ~overlap[p]

\* The same, one step earlier: the write unit is done, the caller not yet resumed.
DoneAlone(p, kind) ==
    /\ pc[p] = "write_ret"
    /\ op[p].kind = kind
    /\ results[p].ok
    /\ ~overlap[p]

\* C1: when insert, delete or update returns success, the collection's file exists
\* and holds exactly the encoding of the sequence the operation gave to write-all.
C1_FileHoldsWhatWasWritten ==
    [][\A p \in Procs :
        (pc[p] = "write_ret" /\ pc'[p] = "idle" /\ ret'[p].ok)
            => files'[PathOf(op[p].collection)] = File(Encode(documents[p]))]_vars

\* C4: a successful insert(D) that no operation on the collection overlaps makes
\* find(always-true) return S followed by D, where S is what the collection held
\* (empty for a file never written), also when D is already in S.
C4_InsertAppends ==
    [][\A p \in Procs :
        ReturnsAlone(p, "insert") =>
            FindAlone(files'[PathOf(op[p].collection)], "all")
                = OkRes(pre[p].val \o <<op[p].document>>)]_vars

\* C4 witness: an insert of a document the collection already holds is done.
C4_Witness ==
    \E p \in Procs :
        /\ DoneAlone(p, "insert")
        /\ op[p].document \in Elems(pre[p].val)
        /\ FindAlone(FileOf(p), "all") = OkRes(pre[p].val \o <<op[p].document>>)

\* C5: a successful update(D, p) that no operation on the collection overlaps
\* leaves the documents of S that p rejects, in their order, followed by one D.
C5_UpdateRemovesThenAppends ==
    [][\A p \in Procs :
        ReturnsAlone(p, "update") =>
            FindAlone(files'[PathOf(op[p].collection)], "all")
                = OkRes(Without(pre[p].val, op[p].predicate) \o <<op[p].document>>)]_vars

\* C5 witness: [Ann, Bob] updated with Abe where the predicate matches Ann is
\* [Bob, Abe].
C5_Witness ==
    \E p \in Procs :
        /\ DoneAlone(p, "update")
        /\ pre[p] = OkRes(<<Ann, Bob>>)
        /\ op[p].predicate = "id1"
        /\ op[p].document = Abe
        /\ FindAlone(FileOf(p), "all") = OkRes(<<Bob, Abe>>)

\* C6: a successful delete(p) that no operation on the collection overlaps leaves
\* the documents of S that p rejects, in their order: all of S when p matches none.
C6_DeleteKeepsRejected ==
    [][\A p \in Procs :
        ReturnsAlone(p, "delete") =>
            /\ FindAlone(files'[PathOf(op[p].collection)], "all")
                    = OkRes(Without(pre[p].val, op[p].predicate))
            /\ (\A i \in 1..Len(pre[p].val) : ~Matches(op[p].predicate, pre[p].val[i]))
                    => FindAlone(files'[PathOf(op[p].collection)], "all") = pre[p]]_vars

\* C6 witness: [Ann, Bob, Abe] with the predicate matching Bob only is [Ann, Abe].
C6_Witness ==
    \E p \in Procs :
        /\ DoneAlone(p, "delete")
        /\ pre[p] = OkRes(<<Ann, Bob, Abe>>)
        /\ op[p].predicate = "id2"
        /\ FindAlone(FileOf(p), "all") = OkRes(<<Ann, Abe>>)

\* C7: a successful find(p) that no operation on the collection overlaps returns
\* the documents of the stored sequence that p accepts, each as often as it occurs
\* and in the order of the stored sequence; the stored sequence is the one the
\* last write-all was given, when a write-all has run.
C7_FindFilters ==
    [][\A p \in Procs :
        (/\ pc[p] = "resume"
         /\ pc'[p] = "idle"
         /\ op[p].kind = "find"
         /\ ret'[p].ok
         /\ ~overlap[p])
        => /\ ret'[p] = OkRes(Only(pre[p].val, op[p].predicate))
           /\ committed[PathOf(op[p].collection)].known
                => ret'[p] = OkRes(Only(committed[PathOf(op[p].collection)].docs,
                                        op[p].predicate))]_vars

\* C7 witness: find returned both copies of Ann out of [Ann, Bob, Ann].
C7_Witness ==
    \E p \in Procs :
        /\ pc[p] = "idle"
        /\ op[p].kind = "find"
        /\ op[p].predicate = "id1"
        /\ ret[p] = OkRes(<<Ann, Ann>>)
        /\ committed[PathOf(op[p].collection)] = [known |-> TRUE, docs |-> <<Ann, Bob, Ann>>]

\* C8: a missing collection file is an empty collection to every operation: the
\* read unit returns the empty sequence and no error, find returns it, and insert,
\* delete and update go on to write-all with the sequence made from it.
C8_MissingIsEmpty ==
    \A p \in Procs :
        ~FileOf(p).exists =>
            /\ pc[p] = "resume" => results[p] = OkRes(<<>>)
            /\ (pc[p] = "idle" /\ op[p].kind = "find") => ret[p] = OkRes(<<>>)
            /\ pc[p] \in {"write_mkdir", "write_open"}
                    => documents[p] = Transform(op[p], <<>>)

\* C8 witness: an update of a collection never written is about to open the file
\* for writing, with the new document alone.
C8_Witness ==
    \E p \in Procs :
        /\ ~FileOf(p).exists
        /\ pc[p] = "write_open"
        /\ op[p].kind = "update"
        /\ documents[p] = <<op[p].document>>

\* A step of caller p inside find: the read unit, or the return from find to the
\* caller or to the insert, delete or update that called it.
FindStep(p) ==
    \/ pc[p] \in {"read_open", "read_rows"} /\ pc'[p] # pc[p]
    \/ pc[p] = "resume" /\ pc'[p] # pc[p]

\* C9: no step of find changes a file or a folder, whether find succeeds or fails,
\* and a find that repeats the caller's previous find, with no file change between
\* the two, returns what the previous one returned.
C9_FindReadsOnly ==
    [][\A p \in Procs :
        /\ FindStep(p) => (files' = files /\ dirs' = dirs)
        /\ (pc[p] = "resume" /\ pc'[p] = "idle" /\ again[p] /\ ~mut[p])
                => ret'[p] = ret[p]]_vars

\* C9 witness: the second of two equal finds has read the collection, nothing
\* changed meanwhile, and it is about to return the same documents.
C9_Witness ==
    \E p \in Procs :
        /\ pc[p] = "resume"
        /\ again[p]
        /\ ~mut[p]
        /\ ret[p].val # <<>>
        /\ results[p].ok
        /\ OkRes(FilterDocs(results[p].val, op[p].predicate)) = ret[p]

\* Caller p takes a step.
Steps(p) == pc'[p] # pc[p] \/ wrt'[p] # wrt[p]

\* C10: a step of an operation on one collection leaves the file of every other
\* collection as it is, and a mutating operation that only operations on other
\* collections overlap leaves in its file what it would leave running alone.
C10_CollectionsIndependent ==
    [][\A p \in Procs :
        /\ Steps(p) =>
            \A c \in Collections \ {op'[p].collection} :
                files'[PathOf(c)] = files[PathOf(c)]
        /\ (pc[p] = "write_ret" /\ pc'[p] = "idle" /\ ret'[p].ok /\ ~overlap[p])
            => files'[PathOf(op[p].collection)]
                    = File(Encode(Expected(op[p], pre[p].val)))]_vars

\* C10 witness: two mutating operations on different collections ran side by side
\* and both are done, each file holding what its own operation wrote.
C10_Witness ==
    \E p, q \in Procs :
        /\ pc[p] = "write_ret" /\ pc[q] = "write_ret"
        /\ op[p].collection # op[q].collection
        /\ cross[p] /\ cross[q]
        /\ results[p].ok /\ results[q].ok
        /\ FileOf(p) = File(Encode(Expected(op[p], pre[p].val)))
        /\ FileOf(q) = File(Encode(Expected(op[q], pre[q].val)))
        /\ FileOf(p).cells # <<>> /\ FileOf(q).cells # <<>>

\* Callers p and q have both finished the write unit of an insert into the same
\* collection, and each read unit had returned the empty sequence, so that each
\* write-all was handed its own document alone.
BothInsertedIntoEmpty(p, q) ==
    /\ p # q
    /\ pc[p] = "write_ret" /\ pc[q] = "write_ret"
    /\ op[p].kind = "insert" /\ op[q].kind = "insert"
    /\ op[p].collection = op[q].collection
    /\ results[p].ok /\ results[q].ok
    /\ documents[p] = <<op[p].document>>
    /\ documents[q] = <<op[q].document>>

\* C2: two inserts into the same empty collection that both took their snapshot
\* before the other's write-all both succeed, and the collection then holds one
\* document, not two: the document of the write-all that ran last, when the two
\* write-alls did not run into each other.
C2_LostUpdate ==
    \A p, q \in Procs :
        BothInsertedIntoEmpty(p, q) =>
            /\ FindAlone(FileOf(p), "all").ok => Len(FindAlone(FileOf(p), "all").val) = 1
            /\ committed[PathOf(op[p].collection)].known
                => FindAlone(FileOf(p), "all")
                        \in {OkRes(<<op[p].document>>), OkRes(<<op[q].document>>)}

\* C2 witness: the collection was empty when Ann and Bob were inserted, both
\* inserts are done with success, and the collection holds Bob alone.
C2_Witness ==
    \E p, q \in Procs :
        /\ BothInsertedIntoEmpty(p, q)
        /\ pre[p] = OkRes(<<>>) /\ pre[q] = OkRes(<<>>)
        /\ op[p].document = Ann /\ op[q].document = Bob
        /\ committed[PathOf(op[p].collection)].known
        /\ FindAlone(FileOf(p), "all") = OkRes(<<Bob>>)

\* The read unit of caller p reads the records of its file.
Reads(p) == pc[p] = "read_rows" /\ pc'[p] = "resume"

\* Caller q is inside a write-all of that path: the file is open for writing and
\* the writer not yet dropped.
Writing(q, path) == pc[q] = "write_loop" /\ PathOf(op[q].collection) = path

\* C3 as claimed: a read-all that runs during a write-all of the same collection
\* observes the sequence stored before that write-all or the sequence given to it.
C3_AtomicReplace ==
    [][\A p \in Procs : \A q \in Procs \ {p} :
        (Reads(p) /\ Writing(q, PathOf(op[p].collection)) /\ wclean[q])
            => results'[p] \in {wold[q], OkRes(documents[q])}]_vars

\* C3 as amended: a read-all that runs while no write-all of the same collection
\* is between opening the file and dropping its writer observes the whole sequence
\* given to the last write-all, when that write-all ran through with no other
\* writer touching the file and nothing wrote to the file since.
C3_ReplaceSeenWhenNoWriteRuns ==
    [][\A p \in Procs :
        (/\ Reads(p)
         /\ committed[PathOf(op[p].collection)].known
         /\ \A q \in Procs : ~Writing(q, PathOf(op[p].collection)))
        => results'[p] = OkRes(committed[PathOf(op[p].collection)].docs)]_vars

\* C3 witness: after a write-all that shortened the collection, a read unit has
\* read exactly the sequence given to that write-all.
C3_Witness ==
    \E p \in Procs :
        /\ pc[p] = "resume"
        /\ committed[PathOf(op[p].collection)].known
        /\ \A q \in Procs : ~Writing(q, PathOf(op[p].collection))
        /\ results[p] = OkRes(committed[PathOf(op[p].collection)].docs)
        /\ results[p].val # <<>>
        /\ \E q \in Procs \ {p} : op[q].kind = "delete" /\ pc[q] \in {"write_ret", "idle"}

\* Some record after the header row does not decode into a document.
BadRecord(cells) ==
    LET rows == SplitRows(cells, <<>>, <<>>)
    IN \E i \in 2..Len(rows) : ~DeserializeRow(rows[1], rows[i]).ok

\* C11: when a record of an existing collection file fails to decode, the read
\* unit returns an error that carries no documents, and a find whose file did not
\* change since it was issued returns an error, never the documents decoded
\* before the malformed record.
C11_DecodeFailureFailsWhole ==
    [][\A p \in Procs :
        /\ (Reads(p) /\ BadRecord(FileOf(p).cells))
                => (~results'[p].ok /\ results'[p].val = <<>>)
        /\ (/\ pc[p] = "resume" /\ pc'[p] = "idle" /\ op[p].kind = "find"
            /\ ~mut[p] /\ FileOf(p).exists /\ BadRecord(FileOf(p).cells))
                => (~ret'[p].ok /\ ret'[p].val = <<>>)]_vars

\* C11 witness: find(always-true) on a file whose first record is whole and whose
\* second record is cut short has returned the decode error.
C11_Witness ==
    \E p \in Procs :
        /\ pc[p] = "idle"
        /\ op[p].kind = "find"
        /\ op[p].predicate = "all"
        /\ FileOf(p) = Torn
        /\ DeserializeRow(Fields, SplitRows(Torn.cells, <<>>, <<>>)[2]) = OkRes(Ann)
        /\ ret[p] = ErrRes("UnequalLengths")

\* Every document of docs is a record of the file, after the header row and in
\* the order of docs; a file for no documents has no record at all.
AllRecordsWritten(f, docs) ==
    LET rows == SplitRows(f.cells, <<>>, <<>>)
    IN /\ f.exists
       /\ Len(rows) = (IF docs = <<>> THEN 0 ELSE Len(docs) + 1)
       /\ \A i \in 1..Len(docs) : rows[i + 1] = FieldValues(docs[i])

\* C12: insert, delete and update return success only when every record of the
\* sequence given to write-all was written to the collection file, and return a
\* failure when the write unit reported one.
C12_NoPartialSuccess ==
    [][\A p \in Procs :
        (pc[p] = "write_ret" /\ pc'[p] = "idle")
            => /\ ret'[p].ok => AllRecordsWritten(files'[PathOf(op[p].collection)],
                                                   documents[p])
               /\ ~results[p].ok => ~ret'[p].ok]_vars

\* C13: write-all creates every missing folder of the path before it opens the
\* file, so a missing folder, at any depth, does not make insert, delete or update
\* fail; after the operation the folders and the collection file exist.
C13_MissingFoldersCreated ==
    [][\A p \in Procs :
        /\ (pc[p] = "write_open" /\ pc'[p] = "write_loop") => dirs = Len(BasePath)
        /\ (pc[p] = "write_ret" /\ pc'[p] = "idle")
                => /\ ret'[p].ok
                   /\ dirs' = Len(BasePath)
                   /\ files'[PathOf(op[p].collection)].exists]_vars

\* C13 witness: an operation issued when no folder of the path existed has
\* finished its write unit with success; the folders and the file exist.
C13_Witness ==
    \E p \in Procs :
        /\ pc[p] = "write_ret"
        /\ results[p].ok
        /\ dirs0[p] = 0
        /\ dirs = Len(BasePath)
        /\ FileOf(p).exists

\* C14: an operation whose blocking unit, the read unit or the write unit, did
\* not run to its end returns a JoinError; one whose unit returned an I/O or a
\* decode error returns that csv::Error; the caller can tell the two apart.
C14_JoinErrorDistinct ==
    [][\A p \in Procs :
        (pc[p] \in {"resume", "write_ret"} /\ pc'[p] = "idle" /\ ~results[p].ok)
            => /\ ~ret'[p].ok
               /\ results[p].err = "Panicked" <=> ret'[p].err = "JoinError"
               /\ results[p].err # "Panicked"
                    => ret'[p].err \in {"Io", "UnequalLengths", "Deserialize"}]_vars

\* C14 witness: a mutating operation whose write unit panicked after it had
\* opened the file has returned the JoinError.
C14_Witness ==
    \E p \in Procs :
        /\ pc[p] = "idle"
        /\ Mutating(op[p])
        /\ ret[p] = ErrRes("JoinError")
        /\ FileOf(p) = File(<<>>)

\* C15: a successful delete whose predicate matches every document of the
\* collection leaves the file in existence with no record in it, and find with
\* the always-true predicate then returns the empty sequence and no error.
C15_DeleteAllLeavesEmptyFile ==
    [][\A p \in Procs :
        /\ (/\ ReturnsAlone(p, "delete")
            /\ \A i \in 1..Len(pre[p].val) : Matches(op[p].predicate, pre[p].val[i]))
                => /\ files'[PathOf(op[p].collection)].exists
                   /\ SplitRows(files'[PathOf(op[p].collection)].cells, <<>>, <<>>) = <<>>
                   /\ FindAlone(files'[PathOf(op[p].collection)], "all") = OkRes(<<>>)
        /\ (/\ pc[p] = "resume" /\ pc'[p] = "idle"
            /\ op[p].kind = "find" /\ op[p].predicate = "all" /\ ~overlap[p]
            /\ committed[PathOf(op[p].collection)] = [known |-> TRUE, docs |-> <<>>])
                => (ret'[p] = OkRes(<<>>) /\ FileOf(p).exists)]_vars

\* C15 witness: [Ann, Bob, Abe] deleted with the always-true predicate; the file
\* is there and holds nothing.
C15_Witness ==
    \E p \in Procs :
        /\ DoneAlone(p, "delete")
        /\ pre[p] = OkRes(<<Ann, Bob, Abe>>)
        /\ op[p].predicate = "all"
        /\ FileOf(p) = File(<<>>)

\* Where a caller stands while one of its blocking units runs.
InUnit(p) ==
    pc[p] \in {"read_open", "read_rows", "write_mkdir", "write_open", "write_retry",
               "write_loop"}

\* The order of the phases of caller p's operation, in one step of p: the read
\* unit is dispatched when the operation is issued and at no other time; the
\* write unit is dispatched by the resumed caller of a mutating operation, after
\* its read unit returned, and that step applies the predicate; no step inside a
\* unit touches the caller's documents or result; find returns from its read.
PhaseOrder(p) ==
    /\ (pc'[p] # pc[p] /\ pc'[p] = "read_open") => pc[p] = "idle"
    /\ (pc'[p] # pc[p] /\ pc'[p] = "write_mkdir")
            => /\ pc[p] = "resume" /\ results[p].ok /\ Mutating(op[p])
               /\ units[p] = 1
               /\ documents'[p] = Expected(op[p], results[p].val)
    /\ InUnit(p) => (documents'[p] = documents[p] /\ ret'[p] = ret[p])
    /\ (pc[p] # "idle" /\ pc'[p] = "idle" /\ op[p].kind = "find")
            => /\ pc[p] = "resume" /\ units[p] = 1
               /\ results[p].ok => ret'[p] = OkRes(Only(results[p].val, op[p].predicate))

\* C16 as claimed: find dispatches exactly one blocking unit, and insert, delete
\* and update dispatch exactly two, the read-all and then the write-all.
C16_TwoUnitsAlways ==
    [][\A p \in Procs :
        /\ PhaseOrder(p)
        /\ (pc[p] # "idle" /\ pc'[p] = "idle" /\ Mutating(op[p])) => units[p] = 2]_vars

\* C16 as amended: find dispatches exactly one blocking unit; insert, delete and
\* update dispatch the read-all and, when it returned success, the write-all:
\* two units, or one when the read phase failed.
C16_PhaseOrdering ==
    [][\A p \in Procs :
        /\ PhaseOrder(p)
        /\ (pc[p] # "idle" /\ pc'[p] = "idle" /\ Mutating(op[p]))
                => \/ pc[p] = "write_ret" /\ units[p] = 2
                   \/ pc[p] = "resume" /\ ~results[p].ok /\ units[p] = 1]_vars

\* C16 witness: a delete has run its two units; the sequence it gave to write-all
\* is what its read returned less the documents its predicate matched.
C16_Witness ==
    \E p \in Procs :
        /\ pc[p] = "write_ret"
        /\ op[p].kind = "delete"
        /\ units[p] = 2
        /\ results[p].ok
        /\ pre[p].val # documents[p]
        /\ documents[p] = Without(pre[p].val, op[p].predicate)

\* C17: in a run of calls that return one before the next begins, on a collection
\* that starts unwritten, find(always-true) after each successful insert, delete
\* and update equals the abstract list (insert appends, delete removes the
\* matching elements, update removes them and appends), and every find returns
\* the elements of the abstract list that its predicate accepts.
C17_SequentialRefinement ==
    [][\A p \in Procs :
        (/\ pc[p] # "idle" /\ pc'[p] = "idle"
         /\ abstract'[PathOf(op[p].collection)].known)
        => /\ FindAlone(files'[PathOf(op[p].collection)], "all")
                    = OkRes(abstract'[PathOf(op[p].collection)].docs)
           /\ Mutating(op[p]) => ret'[p].ok
           /\ op[p].kind = "find"
                => ret'[p] = OkRes(Only(abstract[PathOf(op[p].collection)].docs,
                                        op[p].predicate))]_vars

\* C17 witness: the calls are used up, the last one was an update, the abstract
\* list is [Bob, Abe], and so is the collection.
C17_Witness ==
    /\ \A p \in Procs : pc[p] = "idle"
    /\ budget = 0
    /\ op["t1"].kind = "update"
    /\ abstract[PathOf("users")] = [known |-> TRUE, docs |-> <<Bob, Abe>>]
    /\ FindAlone(files[PathOf("users")], "all") = OkRes(<<Bob, Abe>>)

\* C18: when the read phase of insert, delete or update fails, with a decode
\* error or because the read unit did not run to its end, the operation returns
\* that failure with the read unit the only one dispatched; no step of the read
\* phase changes a file or a folder, and the collection file and the folders are
\* as they were when the operation was issued.
C18_FailedReadWritesNothing ==
    [][\A p \in Procs :
        /\ (Mutating(op[p]) /\ FindStep(p)) => (files' = files /\ dirs' = dirs)
        /\ (Mutating(op[p]) /\ pc[p] = "resume" /\ pc'[p] # pc[p] /\ ~results[p].ok)
                => /\ pc'[p] = "idle"
                   /\ ~ret'[p].ok
                   /\ ret'[p].err \in {"UnequalLengths", "Deserialize", "JoinError"}
                   /\ units[p] = 1
                   /\ ~mut[p]
                   /\ dirs' = dirs0[p]]_vars

\* C18 witness: a mutating operation has returned a decode error, and the file
\* still holds the record that does not decode.
C18_Witness ==
    \E p \in Procs :
        /\ pc[p] = "idle"
        /\ Mutating(op[p])
        /\ ret[p].err \in {"UnequalLengths", "Deserialize"}
        /\ BadRecord(FileOf(p).cells)

\* Callers p and q were both issued an insert into the same collection while it
\* held the sequence S, not empty, and ran concurrently; both write units are
\* done with success.
BothInsertedInto(p, q, S) ==
    /\ p # q
    /\ pc[p] = "write_ret" /\ pc[q] = "write_ret"
    /\ op[p].kind = "insert" /\ op[q].kind = "insert"
    /\ op[p].collection = op[q].collection
    /\ results[p].ok /\ results[q].ok
    /\ overlap[p] /\ overlap[q]
    /\ S # <<>>
    /\ pre[p] = OkRes(S) /\ pre[q] = OkRes(S)

\* C19 as claimed: after two concurrent inserts of D1 and D2 into a collection
\* holding S, under any interleaving, every document of S is still in the
\* collection: what find(always-true) returns from it begins with S.
C19_NoStoredDocumentLost ==
    \A p, q \in Procs :
        BothInsertedInto(p, q, pre[p].val) =>
            LET r == FindAlone(FileOf(p), "all")
                n == Len(pre[p].val)
            IN r.ok => (Len(r.val) >= n /\ SubSeq(r.val, 1, n) = pre[p].val)

\* C19 as amended: when the read-all of each of the two inserts returned S,
\* neither having run between the other's truncation of the file and the end of
\* its writing, the file afterwards holds the header row and the records of S,
\* in order, followed by what the two write-alls left of D1 and D2.
C19_KeptWhenBothReadAll ==
    \A p, q \in Procs :
        (/\ BothInsertedInto(p, q, pre[p].val)
         /\ documents[p] = pre[p].val \o <<op[p].document>>
         /\ documents[q] = pre[p].val \o <<op[q].document>>)
        => LET rows == SplitRows(FileOf(p).cells, <<>>, <<>>)
               n == Len(pre[p].val)
           IN /\ Len(rows) > n + 1
              /\ rows[1] = Fields
              /\ \A i \in 1..n : rows[i + 1] = FieldValues(pre[p].val[i])

\* C19 witness: Ann and Bob were inserted concurrently into [Ann], each read-all
\* returned [Ann], and the collection holds [Ann, Bob].
C19_Witness ==
    \E p, q \in Procs :
        /\ BothInsertedInto(p, q, <<Ann>>)
        /\ documents[p] = <<Ann, Ann>>
        /\ documents[q] = <<Ann, Bob>>
        /\ FindAlone(FileOf(p), "all") = OkRes(<<Ann, Bob>>)

\* C20: the read unit fails only with a decode error or because it did not run
\* to its end; when the file cannot be opened, missing or not, the read unit
\* returns the empty sequence, find returns success with no documents, and
\* insert, delete and update hand write-all the sequence made from the empty one.
C20_OpenFailureReadsEmpty ==
    [][\A p \in Procs :
        /\ (pc[p] = "read_open" /\ pc'[p] = "resume" /\ results'[p].err # "Panicked")
                => results'[p] = OkRes(<<>>)
        /\ (pc[p] \in {"read_open", "read_rows"} /\ pc'[p] = "resume" /\ ~results'[p].ok)
                => results'[p].err \in {"UnequalLengths", "Deserialize", "Panicked"}
        /\ (openfail[p] /\ pc[p] = "resume" /\ pc'[p] # pc[p])
                => IF op[p].kind = "find"
                   THEN pc'[p] = "idle" /\ ret'[p] = OkRes(<<>>)
                   ELSE /\ pc'[p] = "write_mkdir"
                        /\ documents'[p] = Expected(op[p], <<>>)]_vars

\* C20 witness: the file holds [Ann, Bob] and could not be opened for reading;
\* the insert is about to rewrite it with its own document alone.
C20_Witness ==
    \E p \in Procs :
        /\ pc[p] = "write_open"
        /\ openfail[p]
        /\ op[p].kind = "insert"
        /\ FileOf(p) = File(Encode(<<Ann, Bob>>))
        /\ documents[p] = <<op[p].document>>

====
